---- MODULE Spec2Model ----
(***************************************************************************)
(* A model of crates/proto/src/udp/udp_client_stream.rs: UdpClientStream   *)
(* (the Transport), UdpClientConnect (the establishment task), the handle  *)
(* returned by UdpClientStream::new, and the test udp_client_stream_test.  *)
(* UdpStream, BufDnsStreamHandle, SerialMessage and ProtoError live in     *)
(* other files of the crate; they are modelled from their contracts.       *)
(* An Option is a sequence of length at most one.                          *)
(***************************************************************************)
EXTENDS Naturals, Sequences, FiniteSets

\* ----------------------------------------------------------------- bounds
MaxSends == 1        \* sends through the handle in one behaviour
MaxStray == 1        \* unsolicited datagrams in one behaviour
MaxErrors == 1       \* socket errors in one behaviour
MaxEnded == 2        \* the count of "sequence ended" signals saturates here

\* -------------------------------------------------------------- constants
send_recv_times == 4
PeerBufLen == 512

Addrs == {"ns1", "ns2"}
IoErrors == {"EIO", "ECONNREFUSED"}

\* Sample payloads: an empty datagram, one byte, and b"DE".
Payloads == {<<>>, <<68>>, <<68, 69>>}

Min(a, b) == IF a < b THEN a ELSE b
Last(s) == s[Len(s)]

\* ---------------------------------------------------------- collaborators
\* SerialMessage::new(bytes, addr); .bytes() and .addr() are the fields.
SerialMessageNew(bytes, addr) == [bytes |-> bytes, addr |-> addr]

Messages == {SerialMessageNew(p, a) : p \in Payloads, a \in Addrs}

\* ProtoError::from(io::Error): the transport-level error wrapping the cause.
ProtoErrorFrom(e) == [kind |-> "ProtoError", cause |-> e]

\* Poll results (futures 0.1 Poll<T, E>).
NotReady == [kind |-> "NotReady", item |-> <<>>, err |-> <<>>]
Ready(x) == [kind |-> "Ready", item |-> x, err |-> <<>>]
Err(e) == [kind |-> "Err", item |-> <<>>, err |-> <<e>>]

\* Poll<Option<T>, E> of a stream: Ready(Some(m)) carries <<m>>, Ready(None)
\* carries <<>>.
IsSome(r) == r.kind = "Ready" /\ Len(r.item) = 1
IsNone(r) == r.kind = "Ready" /\ Len(r.item) = 0
IsErr(r) == r.kind = "Err"
IsNotReady(r) == r.kind = "NotReady"

\* UdpStream::new(name_server): the setup future (pending) and the sending
\* end of the outbound channel.
UdpStreamNew(name_server) ==
    [stream_future |-> [state |-> "Pending", name_server |-> name_server,
                        err |-> <<>>],
     sender |-> <<"outbound">>]

\* The socket behind a bound UdpStream. released: its owner has been dropped.
SockInit == [inbox |-> <<>>, closed |-> FALSE, errs |-> <<>>, released |-> FALSE]

\* UdpStream::poll on a bound socket: a pending socket error first, then the
\* next datagram, then end-of-stream once the socket is closed, otherwise
\* not ready.
UdpStreamPoll(s) ==
    IF Len(s.errs) > 0
    THEN [res |-> Err(Head(s.errs)), sock |-> [s EXCEPT !.errs = Tail(@)]]
    ELSE IF Len(s.inbox) > 0
    THEN [res |-> Ready(<<Head(s.inbox)>>), sock |-> [s EXCEPT !.inbox = Tail(@)]]
    ELSE IF s.closed
    THEN [res |-> Ready(<<>>), sock |-> s]
    ELSE [res |-> NotReady, sock |-> s]

\* BufDnsStreamHandle::new(name_server, sender)
BufDnsStreamHandleNew(name_server, sender) ==
    [name_server |-> name_server, sender |-> sender]

\* ------------------------------------------------------- udp_client_stream
\* Faulty variant: the handle wraps a channel of its own instead of the one
\* UdpStream::new returned.
New_OwnChannel(name_server) ==
    LET u == UdpStreamNew(name_server)
    IN  [stream_future |-> u.stream_future,
         new_future |-> [name_server |-> name_server, state |-> "Pending"],
         sender |-> BufDnsStreamHandleNew(name_server, <<"detached">>)]

\* Faulty variant: the closure captures a fixed address instead of the
\* argument, so the Transport is labelled with it.
New_FixedAddr(name_server) ==
    LET u == UdpStreamNew(name_server)
    IN  [stream_future |-> u.stream_future,
         new_future |-> [name_server |-> "ns1", state |-> "Pending"],
         sender |-> BufDnsStreamHandleNew(name_server, u.sender)]

\* UdpClientStream::new(name_server): the establishment task, whose closure
\* captures name_server, and the boxed handle.
New(name_server) ==
    LET u == UdpStreamNew(name_server)
    IN  [stream_future |-> u.stream_future,
         new_future |-> [name_server |-> name_server, state |-> "Pending"],
         sender |-> BufDnsStreamHandleNew(name_server, u.sender)]

\* Faulty variant: a failed setup is never reported, the task stays pending.
UdpClientConnectPoll_Hang(self, sf) ==
    IF sf.state = "Ready"
    THEN Ready(<<[name_server |-> self.name_server,
                  udp_stream |-> [name_server |-> sf.name_server]]>>)
    ELSE NotReady

\* Faulty variant: a failed setup resolves to a Transport all the same.
UdpClientConnectPoll_Degraded(self, sf) ==
    IF sf.state = "Pending"
    THEN NotReady
    ELSE Ready(<<[name_server |-> self.name_server,
                  udp_stream |-> [name_server |-> sf.name_server]]>>)

\* UdpClientConnect::poll: the boxed stream_future.map(..).map_err(..).
\* sf is the state of the underlying setup future.
UdpClientConnectPoll(self, sf) ==
    IF sf.state = "Ready"
    THEN Ready(<<[name_server |-> self.name_server,
                  udp_stream |-> [name_server |-> sf.name_server]]>>)
    ELSE IF sf.state = "Err"
    THEN Err(ProtoErrorFrom(Head(sf.err)))
    ELSE NotReady

\* Faulty variants of UdpClientStream::poll. Each differs from it in the one
\* branch given by its first argument:
\*   "filter"   a message from another address is dropped, the poll not ready
\*   "mismatch" a message from another address is turned into an error
\*   "hold"     a message is consumed and the poll reports not ready
\*   "truncate" a message loses its last byte
\*   "rewrite"  a message's address is replaced by the peer address
\*   "twice"    after a message from another address the underlying stream
\*              is polled again and that second result is returned
\*   "end"      end-of-stream is reported as an error
\*   "swallow"  an error is reported as not ready
\*   "block"    not ready is reported as end-of-stream
PollVariant(v, self, s) ==
    LET u == UdpStreamPoll(s)
        message == Head(u.res.item)
        other == message.addr /= self.name_server
        ok(r) == [res |-> r, sock |-> u.sock, debug |-> {}]
    IN  IF IsErr(u.res)
        THEN IF v = "swallow" THEN ok(NotReady)
             ELSE ok(Err(ProtoErrorFrom(Head(u.res.err))))
        ELSE IF IsNotReady(u.res)
        THEN IF v = "block" THEN ok(Ready(<<>>)) ELSE ok(NotReady)
        ELSE IF IsSome(u.res)
        THEN IF v = "filter" /\ other THEN ok(NotReady)
             ELSE IF v = "twice" /\ other
             THEN LET u2 == UdpStreamPoll(u.sock)
                  IN  [res |-> IF IsErr(u2.res)
                               THEN Err(ProtoErrorFrom(Head(u2.res.err)))
                               ELSE u2.res,
                       sock |-> u2.sock, debug |-> {}]
             ELSE IF v = "mismatch" /\ other
             THEN ok(Err(ProtoErrorFrom("AddrMismatch")))
             ELSE IF v = "hold" THEN ok(NotReady)
             ELSE IF v = "rewrite"
             THEN ok(Ready(<<SerialMessageNew(message.bytes, self.name_server)>>))
             ELSE IF v = "truncate" /\ Len(message.bytes) > 0
             THEN ok(Ready(<<SerialMessageNew(
                      SubSeq(message.bytes, 1, Len(message.bytes) - 1),
                      message.addr)>>))
             ELSE [res |-> Ready(<<message>>), sock |-> u.sock,
                   debug |-> IF other
                             THEN {<<message.addr, self.name_server>>}
                             ELSE {}]
        ELSE IF v = "end" THEN ok(Err(ProtoErrorFrom("EOF")))
             ELSE ok(Ready(<<>>))

UdpClientStreamPoll_Filter(self, s) == PollVariant("filter", self, s)
UdpClientStreamPoll_MismatchError(self, s) == PollVariant("mismatch", self, s)
UdpClientStreamPoll_Hold(self, s) == PollVariant("hold", self, s)
UdpClientStreamPoll_Truncate(self, s) == PollVariant("truncate", self, s)
UdpClientStreamPoll_Rewrite(self, s) == PollVariant("rewrite", self, s)
UdpClientStreamPoll_Twice(self, s) == PollVariant("twice", self, s)
UdpClientStreamPoll_EndAsError(self, s) == PollVariant("end", self, s)
UdpClientStreamPoll_Swallow(self, s) == PollVariant("swallow", self, s)
UdpClientStreamPoll_Block(self, s) == PollVariant("block", self, s)

\* UdpClientStream::poll. self is the Transport, s the socket behind
\* self.udp_stream. debug is the set of lines written by debug!.
UdpClientStreamPoll(self, s) ==
    LET u == UdpStreamPoll(s)
    IN  IF IsErr(u.res)
        THEN [res |-> Err(ProtoErrorFrom(Head(u.res.err))), sock |-> u.sock,
              debug |-> {}]
        ELSE IF IsNotReady(u.res)
        THEN [res |-> NotReady, sock |-> u.sock, debug |-> {}]
        ELSE IF IsSome(u.res)
        THEN LET message == Head(u.res.item)
             IN  [res |-> Ready(<<message>>), sock |-> u.sock,
                  debug |-> IF message.addr /= self.name_server
                            THEN {<<message.addr, self.name_server>>}
                            ELSE {}]
        ELSE [res |-> Ready(<<>>), sock |-> u.sock, debug |-> {}]

\* Faulty variant: the label of another transport.
Fmt_Tcp(self) == "TCP(" \o self.name_server \o ")"

\* Display for UdpClientStream: write!(formatter, "UDP({})", self.name_server)
Fmt(self) == "UDP(" \o self.name_server \o ")"

\* DnsClientStream::name_server_addr
name_server_addr(self) == self.name_server

\* ------------------------------------------------------------------ state
VARIABLES
    stream_future,  \* the underlying socket setup future
    new_future,     \* the UdpClientConnect returned by new
    sender,         \* the handle returned by new
    stream,         \* Option: the UdpClientStream the task resolved to
    sock,           \* the socket behind stream.udp_stream
    outbound,       \* the outbound channel: messages queued by the handle
    wire,           \* datagrams sent by the socket, not yet at a peer
    op,             \* the operation of the last step
    connect_res,    \* the result of the last UdpClientConnect::poll
    poll_res,       \* the result of the last UdpClientStream::poll
    poll_debug,     \* the debug! lines of the last UdpClientStream::poll
    send_res,       \* the result of the last send through the handle
    yielded,        \* history: messages the underlying stream has yielded
    delivered,      \* history: messages UdpClientStream::poll has returned
    ended,          \* history: count of Ready(None) returned (saturating)
    failed,         \* history: UdpClientStream::poll has returned an error
    nsent,          \* sends so far
    nstray,         \* unsolicited datagrams so far
    nerrs,          \* socket errors so far
    t               \* the test udp_client_stream_test

vars == <<stream_future, new_future, sender, stream, sock, outbound, wire,
          op, connect_res, poll_res, poll_debug, send_res, yielded,
          delivered, ended, failed, nsent, nstray, nerrs, t>>

hist == <<yielded, delivered, ended, failed>>
counters == <<nsent, nstray, nerrs>>
results == <<connect_res, poll_res, poll_debug, send_res>>

TestOff == [pc |-> "off", cycle |-> 0, sent |-> <<>>, got |-> <<>>]

\* The state right after UdpClientStream::new(a) returned.
InitFor(a) ==
    LET n == New(a)
    IN  /\ stream_future = n.stream_future
        /\ new_future = n.new_future
        /\ sender = n.sender
        /\ stream = <<>>
        /\ sock = SockInit
        /\ outbound = <<>>
        /\ wire = <<>>
        /\ op = "new"
        /\ connect_res = NotReady
        /\ poll_res = NotReady
        /\ poll_debug = {}
        /\ send_res = "none"
        /\ yielded = <<>>
        /\ delivered = <<>>
        /\ ended = 0
        /\ failed = FALSE
        /\ nsent = 0
        /\ nstray = 0
        /\ nerrs = 0

Init == (\E a \in Addrs : InitFor(a)) /\ t = TestOff

Bound == stream_future.state = "Ready" /\ ~sock.released
Active == Len(stream) = 1
Establishing == new_future.state = "Pending"

\* ------------------------------------------------------------ environment
\* The socket setup completes.
SetupReady ==
    /\ stream_future.state = "Pending"
    /\ new_future.state /= "Dropped"
    /\ stream_future' = [stream_future EXCEPT !.state = "Ready"]
    /\ op' = "env"
    /\ UNCHANGED <<new_future, sender, stream, sock, outbound, wire, results,
                   hist, counters, t>>

\* The socket setup fails with an io::Error.
SetupFail ==
    /\ stream_future.state = "Pending"
    /\ new_future.state /= "Dropped"
    /\ \E e \in IoErrors :
           stream_future' = [stream_future EXCEPT !.state = "Err", !.err = <<e>>]
    /\ op' = "env"
    /\ UNCHANGED <<new_future, sender, stream, sock, outbound, wire, results,
                   hist, counters, t>>

\* The socket layer transmits the next queued message.
SocketSend ==
    /\ Bound
    /\ ~sock.closed
    /\ Len(outbound) > 0
    /\ wire' = Append(wire, Head(outbound))
    /\ outbound' = Tail(outbound)
    /\ op' = "env"
    /\ UNCHANGED <<stream_future, new_future, sender, stream, sock, results,
                   hist, counters, t>>

\* The peer at the datagram's destination reads it into its buffer and
\* bounces it right back; it arrives at the socket with the peer's address
\* as its source (dropped if the socket has been closed or released
\* meanwhile).
PeerEcho ==
    /\ Len(wire) > 0
    /\ LET d == Head(wire)
           len == Min(Len(d.bytes), PeerBufLen)
           echo == SerialMessageNew(SubSeq(d.bytes, 1, len), d.addr)
       IN  sock' = IF sock.closed \/ sock.released THEN sock
                   ELSE [sock EXCEPT !.inbox = Append(@, echo)]
    /\ wire' = Tail(wire)
    /\ op' = "env"
    /\ UNCHANGED <<stream_future, new_future, sender, stream, outbound,
                   results, hist, counters, t>>

\* A datagram nobody asked for arrives from an address other than the peer's.
StrayDatagram ==
    /\ Bound
    /\ ~sock.closed
    /\ nstray < MaxStray
    /\ \E m \in Messages :
           /\ m.addr /= stream_future.name_server
           /\ sock' = [sock EXCEPT !.inbox = Append(@, m)]
    /\ nstray' = nstray + 1
    /\ op' = "env"
    /\ UNCHANGED <<stream_future, new_future, sender, stream, outbound, wire,
                   results, hist, nsent, nerrs, t>>

\* The socket reports an error.
SocketError ==
    /\ Bound
    /\ ~sock.closed
    /\ nerrs < MaxErrors
    /\ \E e \in IoErrors : sock' = [sock EXCEPT !.errs = Append(@, e)]
    /\ nerrs' = nerrs + 1
    /\ op' = "env"
    /\ UNCHANGED <<stream_future, new_future, sender, stream, outbound, wire,
                   results, hist, nsent, nstray, t>>

\* The socket is closed: no more datagrams will ever arrive.
SocketClose ==
    /\ Bound
    /\ ~sock.closed
    /\ sock' = [sock EXCEPT !.closed = TRUE]
    /\ op' = "env"
    /\ UNCHANGED <<stream_future, new_future, sender, stream, outbound, wire,
                   results, hist, counters, t>>

\* ------------------------------------------------------------- operations
\* sender.send(message): the handle queues the message on the channel, as
\* long as the channel's receiving end (held by the UdpStream) exists.
SendStep(m) ==
    /\ IF sender.sender = <<"outbound">> /\ ~sock.released
       THEN outbound' = Append(outbound, m) /\ send_res' = "Ok"
       ELSE outbound' = outbound /\ send_res' = "Err"
    /\ op' = "send"
    /\ UNCHANGED <<stream_future, new_future, sender, stream, sock, wire,
                   connect_res, poll_res, poll_debug, hist, nstray, nerrs>>

\* The caller drives the establishment task once.
ConnectStep ==
    /\ new_future.state = "Pending"
    /\ LET r == UdpClientConnectPoll(new_future, stream_future)
       IN  /\ connect_res' = r
           /\ new_future' = [new_future EXCEPT !.state =
                                 IF r.kind = "Ready" THEN "Done"
                                 ELSE IF r.kind = "Err" THEN "Failed"
                                 ELSE @]
           /\ stream' = IF r.kind = "Ready" THEN r.item ELSE stream
    /\ op' = "connect"
    /\ UNCHANGED <<stream_future, sender, sock, outbound, wire, poll_res,
                   poll_debug, send_res, hist, counters>>

\* Faulty variant: the poll also takes the next queued message off the
\* outbound channel and throws it away.
PollStep_Drain ==
    /\ Active
    /\ LET u == UdpStreamPoll(sock)
           r == UdpClientStreamPoll(Head(stream), sock)
       IN  /\ poll_res' = r.res
           /\ poll_debug' = r.debug
           /\ sock' = r.sock
           /\ yielded' = IF IsSome(u.res) THEN yielded \o u.res.item ELSE yielded
           /\ delivered' = IF IsSome(r.res) THEN delivered \o r.res.item
                           ELSE delivered
           /\ ended' = IF IsNone(r.res) THEN Min(ended + 1, MaxEnded) ELSE ended
           /\ failed' = (failed \/ IsErr(r.res))
    /\ outbound' = IF outbound = <<>> THEN outbound ELSE Tail(outbound)
    /\ op' = "poll"
    /\ UNCHANGED <<stream_future, new_future, sender, stream, wire,
                   connect_res, send_res, counters>>

\* Faulty variant: the Transport remembers that it has returned an error or
\* the end of the sequence, and from then on answers "sequence ended"
\* without polling the underlying stream.
PollStep_Fused ==
    /\ Active
    /\ LET done == failed \/ ended > 0
           u == UdpStreamPoll(sock)
           r == IF done THEN [res |-> Ready(<<>>), sock |-> sock, debug |-> {}]
                ELSE UdpClientStreamPoll(Head(stream), sock)
       IN  /\ poll_res' = r.res
           /\ poll_debug' = r.debug
           /\ sock' = r.sock
           /\ yielded' = IF ~done /\ IsSome(u.res) THEN yielded \o u.res.item
                         ELSE yielded
           /\ delivered' = IF IsSome(r.res) THEN delivered \o r.res.item
                           ELSE delivered
           /\ ended' = IF IsNone(r.res) THEN Min(ended + 1, MaxEnded) ELSE ended
           /\ failed' = (failed \/ IsErr(r.res))
    /\ op' = "poll"
    /\ UNCHANGED <<stream_future, new_future, sender, stream, outbound, wire,
                   connect_res, send_res, counters>>

\* The caller polls the Transport once.
PollStep ==
    /\ Active
    /\ LET u == UdpStreamPoll(sock)
           r == UdpClientStreamPoll(Head(stream), sock)
       IN  /\ poll_res' = r.res
           /\ poll_debug' = r.debug
           /\ sock' = r.sock
           /\ yielded' = IF IsSome(u.res) THEN yielded \o u.res.item ELSE yielded
           /\ delivered' = IF IsSome(r.res) THEN delivered \o r.res.item
                           ELSE delivered
           /\ ended' = IF IsNone(r.res) THEN Min(ended + 1, MaxEnded) ELSE ended
           /\ failed' = (failed \/ IsErr(r.res))
    /\ op' = "poll"
    /\ UNCHANGED <<stream_future, new_future, sender, stream, outbound, wire,
                   connect_res, send_res, counters>>

\* The caller sends a payload to the peer the handle was made for.
Send ==
    /\ nsent < MaxSends
    /\ \E p \in Payloads : SendStep(SerialMessageNew(p, sender.name_server))
    /\ nsent' = nsent + 1
    /\ UNCHANGED t

Connect == ConnectStep /\ UNCHANGED t

Poll == PollStep /\ UNCHANGED t

Next ==
    \/ SetupReady
    \/ SetupFail
    \/ SocketSend
    \/ PeerEcho
    \/ StrayDatagram
    \/ SocketError
    \/ SocketClose
    \/ Send
    \/ Connect
    \/ Poll

Spec == Init /\ [][Next]_vars

\* The caller's reactor polls the Transport again whenever the socket has
\* something for it.
FairSpec == Spec /\ WF_vars(Poll)

\* The caller's scheduler polls the establishment task again whenever the
\* socket setup has made progress.
ConnectFairSpec == Spec /\ WF_vars(Connect)

\* ------------------------------------------------------------------ drop
\* What is left of the socket once its owner is dropped: the UdpStream goes
\* with its owner, and with it the socket and the channel's receiving end.
Released(s) == [s EXCEPT !.inbox = <<>>, !.errs = <<>>, !.released = TRUE]

\* The caller drops the establishment task before it has resolved. The task
\* is a Box of the setup future, which owns the socket being set up.
DropTask ==
    /\ new_future.state = "Pending"
    /\ new_future' = [new_future EXCEPT !.state = "Dropped"]
    /\ sock' = Released(sock)
    /\ outbound' = <<>>
    /\ op' = "drop"
    /\ UNCHANGED <<stream_future, sender, stream, wire, results, hist,
                   counters, t>>

\* Faulty variant: the Transport goes, the socket stays open (as it would if
\* udp_stream were shared instead of owned).
DropStream_Leak ==
    /\ Active
    /\ stream' = <<>>
    /\ op' = "drop"
    /\ UNCHANGED <<stream_future, new_future, sender, sock, outbound, wire,
                   results, hist, counters, t>>

\* The caller drops the Transport, which owns udp_stream.
DropStream ==
    /\ Active
    /\ stream' = <<>>
    /\ sock' = Released(sock)
    /\ outbound' = <<>>
    /\ op' = "drop"
    /\ UNCHANGED <<stream_future, new_future, sender, wire, results, hist,
                   counters, t>>

DropNext ==
    \/ Next
    \/ DropTask
    \/ DropStream

\* The program with cancellation: the caller may drop what it owns.
DropSpec == Init /\ [][DropNext]_vars

\* ------------------------------------------------- udp_client_stream_test
server_addr == new_future.name_server

TestInit ==
    /\ \E a \in Addrs : InitFor(a)
    /\ t = [pc |-> "connect", cycle |-> 0, sent |-> <<>>, got |-> <<>>]

\* io_loop.block_on(stream).ok().unwrap()
TestConnect ==
    /\ t.pc = "connect"
    /\ ConnectStep
    /\ t' = [t EXCEPT !.pc = IF connect_res'.kind = "Ready" THEN "send"
                              ELSE IF connect_res'.kind = "Err" THEN "panic"
                              ELSE @]

\* sender.send(SerialMessage::new(test_bytes.to_vec(), server_addr)).unwrap()
TestSend ==
    /\ t.pc = "send"
    /\ t.cycle < send_recv_times
    /\ \E p \in Payloads :
           /\ SendStep(SerialMessageNew(p, server_addr))
           /\ t' = [t EXCEPT !.pc = IF send_res' = "Ok" THEN "recv" ELSE "panic",
                              !.sent = Append(@, p)]
    /\ UNCHANGED nsent

\* io_loop.block_on(stream.into_future()).ok().unwrap(), then
\* assert_eq!(buffer.expect("no buffer received").bytes(), test_bytes)
TestRecv ==
    /\ t.pc = "recv"
    /\ PollStep
    /\ t' = IF IsNotReady(poll_res') THEN t
            ELSE IF IsSome(poll_res') /\ Head(poll_res'.item).bytes = Last(t.sent)
            THEN [t EXCEPT !.got = Append(@, Head(poll_res'.item).bytes),
                           !.cycle = @ + 1,
                           !.pc = IF t.cycle + 1 < send_recv_times
                                  THEN "send" ELSE "done"]
            ELSE [t EXCEPT !.pc = "panic"]

TestNext ==
    \/ SetupReady
    \/ SocketSend
    \/ PeerEcho
    \/ TestConnect
    \/ TestSend
    \/ TestRecv

TestSpec == TestInit /\ [][TestNext]_vars

\* ----------------------------------------------------------------- claims
\* What the underlying stream is about to yield to the next poll.
Under == UdpStreamPoll(sock).res
peer == Head(stream).name_server

\* C1: a poll in which the underlying stream yields a message whose source
\* address differs from the Transport's peer address returns exactly that
\* message as Ready(Some(message)); the mismatch is only logged.
C1_MismatchDelivered ==
    [][(op' = "poll" /\ IsSome(Under) /\ Head(Under.item).addr /= peer)
          => /\ poll_res' = Ready(Under.item)
             /\ delivered' = Append(delivered, Head(Under.item))
             /\ poll_debug' /= {}]_vars

C1_Witness ==
    /\ op = "poll"
    /\ IsSome(poll_res)
    /\ Head(poll_res.item).addr /= peer
    /\ delivered /= <<>>
    /\ Last(delivered) = Head(poll_res.item)

\* C2: once the Transport exists, a payload P sent to the peer address A and
\* echoed back by the peer (the echo is waiting at the socket) is eventually
\* returned by a poll of the Transport as a message whose bytes equal P.
EchoWaiting(p) ==
    /\ Active
    /\ \E i \in 1..Len(sock.inbox) : sock.inbox[i] = SerialMessageNew(p, peer)
Got(p) == op = "poll" /\ poll_res = Ready(<<SerialMessageNew(p, peer)>>)

C2_RoundTrip == \A p \in Payloads : EchoWaiting(p) ~> Got(p)

C2_Witness ==
    /\ Active
    /\ nstray = 0
    /\ nsent > 0
    /\ op = "poll"
    /\ IsSome(poll_res)
    /\ Head(poll_res.item) = SerialMessageNew(<<68, 69>>, peer)

\* C3: in the test's sequential send-then-receive cycles every receive
\* yields the payload sent in its cycle, the Transport has delivered exactly
\* one message per completed cycle, and after the last cycle it has
\* delivered send_recv_times messages with none left over anywhere.
InFlight == Len(outbound) + Len(wire) + Len(sock.inbox)

C3_Cycles ==
    /\ t.pc /= "panic"
    /\ Len(delivered) = t.cycle
    /\ Len(t.got) = t.cycle
    /\ t.got = SubSeq(t.sent, 1, t.cycle)
    /\ \A i \in 1..t.cycle : delivered[i] = SerialMessageNew(t.sent[i], server_addr)
    /\ (t.pc = "recv" => InFlight = 1)
    /\ (t.pc \in {"send", "done"} => InFlight = 0)
    /\ (t.pc = "done" => Len(delivered) = send_recv_times)

C3_Witness ==
    /\ t.pc = "done"
    /\ t.cycle = send_recv_times
    /\ t.got = t.sent
    /\ t.sent[1] /= t.sent[2]

\* C4 (as stated): end-of-stream produces exactly one "sequence ended"
\* signal; after it a poll yields no message, no error and no second signal.
C4_ExactlyOneSignal ==
    [][(op' = "poll" /\ ended >= 1)
          => (~IsSome(poll_res') /\ ~IsErr(poll_res') /\ ended' = ended)]_vars

\* C4 (amended): the poll that finds the underlying stream at its end
\* returns "sequence ended", and so does every poll after the first such
\* signal: none of them yields a message or an error.
C4_EndOfStream ==
    [][op' = "poll"
          => /\ (IsNone(Under) => poll_res' = Ready(<<>>))
             /\ (ended >= 1 => /\ poll_res' = Ready(<<>>)
                               /\ delivered' = delivered
                               /\ failed' = failed)]_vars

C4_Witness == op = "poll" /\ ended >= 2 /\ IsNone(poll_res) /\ sock.closed

\* C5 (as stated): an error of the underlying stream is returned by the same
\* poll as the ProtoError derived from it, and no poll after an error yields
\* a message.
C5_ErrorTerminates ==
    [][op' = "poll"
          => /\ (IsErr(Under) => poll_res' = Err(ProtoErrorFrom(Head(Under.err))))
             /\ (failed => ~IsSome(poll_res'))]_vars

\* C5 (amended): an error of the underlying stream is returned by the same
\* poll as the ProtoError derived from it and that poll delivers nothing;
\* the Transport keeps no record of the failure, so a poll after an error
\* yields a message exactly when the underlying stream yields one.
C5_ErrorPropagated ==
    [][op' = "poll"
          => /\ (IsErr(Under) => /\ poll_res' = Err(ProtoErrorFrom(Head(Under.err)))
                                 /\ delivered' = delivered
                                 /\ failed')
             /\ (failed => (IsSome(poll_res') <=> IsSome(Under)))
             /\ (IsErr(poll_res') => IsErr(Under))]_vars

C5_Witness ==
    /\ op = "poll"
    /\ failed
    /\ IsErr(poll_res)
    /\ Head(poll_res.err) = ProtoErrorFrom("ECONNREFUSED")

\* C6: establishment is all-or-nothing. A Transport exists only once the
\* socket setup has completed successfully and the task has resolved, and it
\* then owns the bound stream; a failed setup makes the task fail with the
\* ProtoError derived from the setup error, and no Transport ever exists.
C6_AllOrNothing ==
    /\ (Active => /\ stream_future.state = "Ready"
                  /\ new_future.state = "Done"
                  /\ Head(stream).udp_stream =
                         [name_server |-> stream_future.name_server])
    /\ (new_future.state = "Done" => Active)
    /\ (stream_future.state = "Err" => ~Active /\ new_future.state /= "Done")
    /\ (new_future.state = "Failed"
          => /\ ~Active
             /\ stream_future.state = "Err"
             /\ connect_res = Err(ProtoErrorFrom(Head(stream_future.err))))

C6_Witness ==
    /\ op = "connect"
    /\ new_future.state = "Failed"
    /\ IsErr(connect_res)
    /\ stream = <<>>

\* C7: a send through the handle while the task is still establishing
\* (polled or not, socket bound or not) is accepted and queued.
C7_SendWhileEstablishing ==
    [][(op' = "send" /\ Establishing)
          => /\ send_res' = "Ok"
             /\ Len(outbound') = Len(outbound) + 1
             /\ SubSeq(outbound', 1, Len(outbound)) = outbound]_vars

C7_Witness ==
    /\ op = "send"
    /\ Establishing
    /\ stream_future.state = "Pending"
    /\ stream = <<>>
    /\ send_res = "Ok"
    /\ Len(outbound) = 1

\* C8: the messages the Transport has delivered are exactly the messages
\* the underlying stream has yielded, in the same order: none reordered,
\* duplicated or held back.
C8_SameSequence == delivered = yielded

C8_Witness ==
    /\ Len(delivered) >= 2
    /\ delivered[1] /= delivered[2]
    /\ delivered = yielded

\* C9: polling the task while the setup is pending, or the Transport while
\* no datagram is available, returns not ready and consumes nothing; a poll
\* made once the setup is complete or a datagram is waiting returns it.
C9_NotReady ==
    [][/\ (op' = "connect" /\ stream_future.state = "Pending")
          => /\ connect_res' = NotReady
             /\ UNCHANGED <<new_future, stream, sock, outbound, wire,
                             yielded, delivered>>
       /\ (op' = "connect" /\ stream_future.state = "Ready")
          => /\ connect_res'.kind = "Ready"
             /\ stream' = connect_res'.item
             /\ Len(stream') = 1
       /\ (op' = "poll" /\ IsNotReady(Under))
          => /\ poll_res' = NotReady
             /\ UNCHANGED <<sock, outbound, wire, yielded, delivered, ended,
                             failed>>
       /\ (op' = "poll" /\ IsSome(Under))
          => /\ poll_res' = Ready(<<Head(sock.inbox)>>)
             /\ sock'.inbox = Tail(sock.inbox)]_vars

C9_Witness ==
    /\ op = "poll"
    /\ IsNotReady(poll_res)
    /\ ~sock.closed
    /\ sock.inbox = <<>>
    /\ delivered /= <<>>

\* C10 (as stated): every poll of the Transport yields a message, the end of
\* the sequence, or an error.
C10_ThreeOutcomes ==
    op = "poll" => (IsSome(poll_res) \/ IsNone(poll_res) \/ IsErr(poll_res))

\* C10 (amended): every poll of the Transport yields one of exactly four
\* outcomes: a message, the end of the sequence, a ProtoError wrapping a
\* socket error, or not ready.
C10_FourOutcomes ==
    op = "poll"
        => \/ \E m \in Messages : poll_res = Ready(<<m>>)
           \/ poll_res = Ready(<<>>)
           \/ \E e \in IoErrors : poll_res = Err(ProtoErrorFrom(e))
           \/ poll_res = NotReady

C10_Witness ==
    /\ op = "poll"
    /\ Active
    /\ poll_res = NotReady
    /\ yielded = <<>>

\* C11: the Transport's peer address never changes: in every state, whatever
\* polls and sends went before, name_server_addr() is the address passed to
\* new and the display form is "UDP(<that address>)"; no step replaces the
\* Transport or its address.
C11_PeerAddressFixed ==
    /\ [](Active => /\ name_server_addr(Head(stream)) = new_future.name_server
                    /\ new_future.name_server \in Addrs
                    /\ (new_future.name_server = "ns1"
                          => Fmt(Head(stream)) = "UDP(ns1)")
                    /\ (new_future.name_server = "ns2"
                          => Fmt(Head(stream)) = "UDP(ns2)"))
    /\ [][Active => (Active' /\ stream' = stream
                     /\ new_future'.name_server = new_future.name_server)]_vars

C11_Witness ==
    /\ Active
    /\ failed
    /\ delivered /= <<>>
    /\ Last(delivered).addr /= name_server_addr(Head(stream))
    /\ Fmt(Head(stream)) = "UDP(ns2)"
    /\ nsent > 0

\* What a poll of the Transport returns for a result u of the underlying
\* stream: a socket error as the ProtoError made from it, anything else as
\* it is.
Lift(u) == IF IsErr(u) THEN Err(ProtoErrorFrom(Head(u.err))) ELSE u

C13_DropReleases ==
    [][/\ (op' = "drop")
          => /\ sock'.released
             /\ sock'.inbox = <<>>
             /\ ~Bound'
             /\ ~Active'
             /\ ~Establishing'
       /\ sock.released
          => /\ sock'.released
             /\ ~Active'
             /\ ~Establishing'
             /\ sock'.inbox = <<>>
             /\ UNCHANGED <<stream_future, poll_res, poll_debug, connect_res,
                             yielded, delivered, ended, failed>>]_vars

C13_Witness ==
    /\ op = "drop"
    /\ sock.released
    /\ new_future.state = "Done"
    /\ stream = <<>>
    /\ delivered /= <<>>
    /\ ~Bound

\* C14: a poll is stateless with respect to the Transport: its outcome is
\* decided by what the underlying stream yields on that poll alone (message
\* -> that message, none -> end of the sequence, error -> ProtoError, not
\* ready -> not ready), also after an earlier end or error, and the poll
\* leaves the Transport as it was.
C14_Stateless ==
    [][(op' = "poll")
          => /\ (IsSome(Under) => poll_res' = Ready(<<Head(Under.item)>>))
             /\ (IsNone(Under) => poll_res' = Ready(<<>>))
             /\ (IsErr(Under) => poll_res' = Err(ProtoErrorFrom(Head(Under.err))))
             /\ (IsNotReady(Under) => poll_res' = NotReady)
             /\ stream' = stream]_vars

C14_Witness ==
    /\ op = "poll"
    /\ failed
    /\ IsSome(poll_res)
    /\ Last(delivered) = Head(poll_res.item)
    /\ Len(delivered) = 1

\* C15: a message delivered by a poll is the message the underlying stream
\* yielded on that poll, payload and address alike: its address is the
\* datagram's source address, never the configured peer address in its
\* place.
C15_SameMessage ==
    [][(op' = "poll" /\ IsSome(Under))
          => /\ IsSome(poll_res')
             /\ Head(poll_res'.item).bytes = Head(sock.inbox).bytes
             /\ Head(poll_res'.item).addr = Head(sock.inbox).addr
             /\ Last(delivered') = Head(sock.inbox)]_vars

C15_Witness ==
    /\ op = "poll"
    /\ IsSome(poll_res)
    /\ Head(poll_res.item).addr /= peer
    /\ Head(poll_res.item).bytes = <<68, 69>>
    /\ Last(yielded) = Head(poll_res.item)

\* C16: one poll of the Transport polls the underlying stream exactly once:
\* it takes at most one message off the socket, none when it returns not
\* ready, the end of the sequence or an error, and a message it takes is the
\* one it returns.
C16_OnePollOneMessage ==
    [][(op' = "poll")
          => /\ sock' = UdpStreamPoll(sock).sock
             /\ (IsSome(poll_res')
                   => sock.inbox = poll_res'.item \o sock'.inbox)
             /\ (~IsSome(poll_res') => sock'.inbox = sock.inbox)
             /\ Len(sock.errs) - Len(sock'.errs) =
                    (IF IsErr(poll_res') THEN 1 ELSE 0)]_vars

C16_Witness ==
    /\ op = "poll"
    /\ IsSome(poll_res)
    /\ sock.inbox /= <<>>
    /\ Len(delivered) = 1
    /\ Len(yielded) = 1

\* C17: the establishment task, the underlying socket stream and the handle
\* are all made for the one address passed to new, and the Transport a
\* successful task resolves to carries that same address, as does the
\* stream it owns: the Transport's address never differs from its handle's.
C17_OneAddress ==
    /\ sender.name_server \in Addrs
    /\ new_future.name_server = sender.name_server
    /\ stream_future.name_server = sender.name_server
    /\ (Active => /\ Head(stream).name_server = sender.name_server
                  /\ Head(stream).udp_stream.name_server = sender.name_server)
    /\ (connect_res.kind = "Ready"
          => Head(connect_res.item).name_server = sender.name_server)

C17_Witness ==
    /\ op = "connect"
    /\ connect_res.kind = "Ready"
    /\ Active
    /\ Head(stream).name_server = "ns2"
    /\ sender.name_server = "ns2"

\* C18: with a fair scheduler the establishment task ends in exactly one
\* outcome, the one of the socket setup: a completed setup leads to a
\* Transport, a failed one to the ProtoError made from its error; the
\* outcome, once reached, stays, and a poll made while the setup is pending
\* leaves the task pending.
C18_Resolves ==
    /\ (stream_future.state = "Ready") ~> (new_future.state = "Done" /\ Active)
    /\ (stream_future.state = "Err") ~> (new_future.state = "Failed")
    /\ [](new_future.state = "Done" => stream_future.state = "Ready")
    /\ [](new_future.state = "Failed"
            => /\ stream_future.state = "Err"
               /\ connect_res = Err(ProtoErrorFrom(Head(stream_future.err)))
               /\ ~Active)
    /\ [][/\ (new_future.state \in {"Done", "Failed"}
                 => (new_future' = new_future /\ connect_res' = connect_res))
           /\ ((op' = "connect" /\ stream_future.state = "Pending")
                 => (new_future'.state = "Pending" /\ ~Active'))]_vars

C18_Witness ==
    /\ op = "connect"
    /\ new_future.state = "Done"
    /\ stream_future.state = "Ready"
    /\ connect_res = Ready(stream)
    /\ yielded = <<>>

====
